---- MODULE Spec2Model ----
(***************************************************************************)
(* Model of the rust_ob limit order book: OrderBook (src/src/orderbook.rs) *)
(* over two BookSide price trees (src/src/bookside.rs).  Decimal values    *)
(* are modelled by integers (exact arithmetic, no overflow).               *)
(***************************************************************************)
EXTENDS Integers, Sequences, FiniteSets, TLC

\* ---------------------------------------------------------------- bounds
MaxId == 3
MaxPrice == 1
MaxQty == 2
MaxPriority == 2

OrderIDs == 1..MaxId
Prices == (0 - 1)..MaxPrice
Quantities == (0 - 1)..MaxQty
Sides == {"Buy", "Sell"}

\* Decimal::MAX / Decimal::MIN: the extremes of the Decimal range, beyond
\* every price a caller of the model submits (Prices).
DecimalMAX == MaxPrice + 1
DecimalMIN == 0 - 2

\* None of Option<Rc<RefCell<Order>>>
None == 0

VARIABLES
    order_index,   \* HashMap<OrderID, Rc<RefCell<Order>>>: id -> cell
    buy_side,      \* BookSide<MaxPricePriority>.price_tree: price -> queue of cells
    sell_side,     \* BookSide<MinPricePriority>.price_tree: price -> queue of cells
    priority,      \* OrderBook.priority
    orders,        \* the live Rc<RefCell<Order>> cells: cell -> Order
    last           \* the last public call: arguments, book before it, result

vars == <<order_index, buy_side, sell_side, priority, orders, last>>

\* ------------------------------------------------------------- sequences
RECURSIVE SumSeq(_)
SumSeq(s) == IF s = <<>> THEN 0 ELSE Head(s) + SumSeq(Tail(s))

Reverse(s) == [i \in 1..Len(s) |-> s[Len(s) + 1 - i]]

\* mutant: the last element is removed
RemoveAtBack(s, i) == SubSeq(s, 1, Len(s) - 1)

RemoveAt(s, i) == SubSeq(s, 1, i - 1) \o SubSeq(s, i + 1, Len(s))

Restrict(f, S) == [x \in S |-> f[x]]

\* ------------------------------------------------------------ RBMap keys
\* mutant: the two key types compare the prices the same way
KeyLessSame(K, a, b) == a < b

\* PartialOrd of the two key types: MinPricePriority compares the prices,
\* MaxPricePriority compares them the other way round.
KeyLess(K, a, b) == IF K = "MinPricePriority" THEN a < b ELSE b < a

\* mutant: the entry of the greatest key
PeekKeyGreatest(K, price_tree) ==
    CHOOSE k \in DOMAIN price_tree : \A j \in DOMAIN price_tree : ~KeyLess(K, k, j)

\* RBMap::peek: the entry of the least key
PeekKey(K, price_tree) ==
    CHOOSE k \in DOMAIN price_tree : \A j \in DOMAIN price_tree : ~KeyLess(K, j, k)

\* the keys of the tree in ascending key order (RBMap::iter)
RECURSIVE KeysSorted(_, _)
KeysSorted(K, keys) ==
    IF keys = {} THEN <<>>
    ELSE LET k == CHOOSE k \in keys : \A j \in keys : ~KeyLess(K, j, k)
         IN <<k>> \o KeysSorted(K, keys \ {k})

\* ------------------------------------------------------------ OrderQueue
\* A queue is the LinkedList front to back: index 1 is the front, the
\* back (highest priority) is the last element.
\* mutant: the new order is put at the back of the queue
push_front_back(queue, cell) == Append(queue, cell)

push_front(queue, cell) == <<cell>> \o queue

\* mutant: the front of the queue
back_front(queue) == IF queue = <<>> THEN None ELSE queue[1]

back(queue) == IF queue = <<>> THEN None ELSE queue[Len(queue)]

\* mutant: the front of the queue is taken off
pop_back_front(queue) == Tail(queue)

pop_back(queue) == SubSeq(queue, 1, Len(queue) - 1)

\* mutant: the front of the queue, whatever id it holds
find_index_front(queue, cells, id) == 1

\* index (from 1) of the first cell holding id, 0 where the code panics
find_index_by_id_or_panic(queue, cells, id) ==
    IF \E i \in 1..Len(queue) : cells[queue[i]].id = id
    THEN CHOOSE i \in 1..Len(queue) :
            /\ cells[queue[i]].id = id
            /\ \A j \in 1..(i - 1) : cells[queue[j]].id # id
    ELSE 0

\* ---------------------------------------------------------------- BookSide
BookSideNew == [k \in {} |-> <<>>]

BookSideAdd(price_tree, cells, cell) ==
    LET key == cells[cell].price
        order_queue == IF key \in DOMAIN price_tree THEN price_tree[key] ELSE <<>>
    IN [k \in DOMAIN price_tree \cup {key} |->
            IF k = key THEN push_front(order_queue, cell) ELSE price_tree[k]]

\* mutant: the tree is left as it is
BookSideRemoveNothing(price_tree, cells, cell) ==
    [panic |-> FALSE, price_tree |-> price_tree]

\* result: the tree and whether the code panicked
BookSideRemove(price_tree, cells, cell) ==
    LET key == cells[cell].price
        id == cells[cell].id
    IN IF key \notin DOMAIN price_tree
       THEN [panic |-> TRUE, price_tree |-> price_tree]
       ELSE LET index == find_index_by_id_or_panic(price_tree[key], cells, id)
                queue == RemoveAt(price_tree[key], index)
            IN IF index = 0
               THEN [panic |-> TRUE, price_tree |-> price_tree]
               ELSE [panic |-> FALSE,
                     price_tree |->
                        IF Len(queue) = 0
                        THEN Restrict(price_tree, DOMAIN price_tree \ {key})
                        ELSE [price_tree EXCEPT ![key] = queue]]

get_highest_priority(K, price_tree) ==
    IF DOMAIN price_tree = {} THEN None
    ELSE back(price_tree[PeekKey(K, price_tree)])

pop_highest_priority(K, price_tree) ==
    IF DOMAIN price_tree = {} THEN [panic |-> TRUE, price_tree |-> price_tree]
    ELSE LET key == PeekKey(K, price_tree)
         IN IF price_tree[key] = <<>>
            THEN [panic |-> TRUE, price_tree |-> price_tree]
            ELSE [panic |-> FALSE,
                  price_tree |->
                     IF Len(price_tree[key]) = 1
                     THEN Restrict(price_tree, DOMAIN price_tree \ {key})
                     ELSE [price_tree EXCEPT ![key] = pop_back(@)]]

\* BookSideIter: the queues in key order, each from its back to its front.
\* An empty queue ends the iteration (pop of an empty Vec is None).
RECURSIVE IterQueues(_, _)
IterQueues(price_tree, keys) ==
    IF keys = <<>> THEN <<>>
    ELSE IF price_tree[Head(keys)] = <<>> THEN <<>>
    ELSE Reverse(price_tree[Head(keys)]) \o IterQueues(price_tree, Tail(keys))

BookSideIter(K, price_tree) ==
    IterQueues(price_tree, KeysSorted(K, DOMAIN price_tree))

\* --------------------------------------------------------------- OrderBook
\* The book as one value: the fields of OrderBook and the cells they share.
Book == [order_index |-> order_index, buy_side |-> buy_side,
         sell_side |-> sell_side, priority |-> priority, orders |-> orders]

\* OrderBook::new
OrderBookNew == [order_index |-> [i \in {} |-> None], buy_side |-> BookSideNew,
                 sell_side |-> BookSideNew, priority |-> 0,
                 orders |-> [c \in {} |-> None]]

\* Side::opposite
Opposite(side) == IF side = "Buy" THEN "Sell" ELSE "Buy"

\* OrderMatch::new
OrderMatchNew(order) == [order |-> order, quantity |-> 0, cost |-> 0]

Min(a, b) == IF a <= b THEN a ELSE b

\* the cells a queue of a tree refers to
CellsOf(price_tree) ==
    UNION {{price_tree[k][i] : i \in 1..Len(price_tree[k])} : k \in DOMAIN price_tree}

\* Rc: a cell lives as long as the index or a side refers to it
Release(b) ==
    LET live == {b.order_index[i] : i \in DOMAIN b.order_index}
                    \cup CellsOf(b.buy_side) \cup CellsOf(b.sell_side)
    IN [b EXCEPT !.orders = Restrict(b.orders, DOMAIN b.orders \cap live)]

\* Rc::new: a cell that is not in use
NewCell(b) == CHOOSE c \in 1..(Cardinality(DOMAIN b.orders) + 1) :
                 /\ c \notin DOMAIN b.orders
                 /\ \A d \in 1..(c - 1) : d \in DOMAIN b.orders

\* mutant: the counter is set to one
get_next_priority_one(b) == 1

\* mutant: the counter is returned as it is
get_next_priority_stale(b) == b.priority

\* get_next_priority: the counter after the increment
get_next_priority(b) == b.priority + 1

\* the highest priority order on the side opposite to the new order
OppositeBest(b, side) ==
    IF side = "Buy"
    THEN get_highest_priority("MinPricePriority", b.sell_side)
    ELSE get_highest_priority("MaxPricePriority", b.buy_side)

\* mutant: the comparisons of the two sides are exchanged
SatisfiedSwapped(side, price, maker_price) ==
    IF side = "Buy" THEN price <= maker_price ELSE price >= maker_price

\* mutant: equal prices do not cross
SatisfiedStrict(side, price, maker_price) ==
    IF side = "Buy" THEN price > maker_price ELSE price < maker_price

\* "check if orders satisfy each other"
Satisfied(side, price, maker_price) ==
    IF side = "Buy" THEN price >= maker_price ELSE price <= maker_price

\* mutant: the whole quantity of the maker is taken
SatisfiedQuantityMaker(quantity, maker_quantity) == maker_quantity

\* mutant: one unit is taken
SatisfiedQuantityOne(quantity, maker_quantity) == 1

\* mutant: one unit of a maker of more than one unit is left
SatisfiedQuantityShort(quantity, maker_quantity) ==
    IF maker_quantity > 1 THEN maker_quantity - 1 ELSE Min(quantity, maker_quantity)

SatisfiedQuantity(quantity, maker_quantity) == Min(quantity, maker_quantity)

BuySideCost(maker_price, satisfied_quantity) == maker_price * satisfied_quantity

\* mutant: the sign of the maker's cost is the one of the new order
MakerCostSameSign(side, buy_side_cost) ==
    IF side = "Buy" THEN buy_side_cost ELSE 0 - buy_side_cost

\* the cost of the record of the maker
MakerCost(side, buy_side_cost) ==
    IF side = "Buy" THEN 0 - buy_side_cost ELSE buy_side_cost

\* mutant: the cost is added for a Sell too
TakerCostAdded(side, cost, buy_side_cost) == cost + buy_side_cost

\* the running cost of the record of the new order
TakerCost(side, cost, buy_side_cost) ==
    IF side = "Buy" THEN cost + buy_side_cost ELSE cost - buy_side_cost

\* highest_priority_order_order_match after the updates of one iteration
MakerMatch(maker_id, side, satisfied_quantity, buy_side_cost) ==
    [OrderMatchNew(maker_id) EXCEPT
        !.quantity = @ + satisfied_quantity,
        !.cost = MakerCost(side, buy_side_cost)]

\* mutant: the quantity is assigned, not accumulated
TakerMatchAssigned(new_order_order_match, side, satisfied_quantity, buy_side_cost) ==
    [new_order_order_match EXCEPT
        !.quantity = satisfied_quantity,
        !.cost = TakerCost(side, @, buy_side_cost)]

\* new_order_order_match after the updates of one iteration
TakerMatch(new_order_order_match, side, satisfied_quantity, buy_side_cost) ==
    [new_order_order_match EXCEPT
        !.quantity = @ + satisfied_quantity,
        !.cost = TakerCost(side, @, buy_side_cost)]

\* "remove highest_priority_order from orderbook if completely satisfied":
\* [b, panic]
RemoveSatisfied(b, side, cell) ==
    IF b.orders[cell].quantity # 0 THEN [b |-> b, panic |-> FALSE]
    ELSE
    LET popped == IF side = "Sell"
                  THEN pop_highest_priority("MaxPricePriority", b.buy_side)
                  ELSE pop_highest_priority("MinPricePriority", b.sell_side)
    IN [b |-> Release(
                [b EXCEPT
                   !.order_index = Restrict(@, DOMAIN @ \ {b.orders[cell].id}),
                   !.buy_side = IF side = "Sell" THEN popped.price_tree ELSE @,
                   !.sell_side = IF side = "Buy" THEN popped.price_tree ELSE @]),
        panic |-> popped.panic]

\* The main matching loop.  s holds the book b, the remaining quantity,
\* order_match_vec, new_order_order_match, the number of iterations run
\* and whether a BookSide operation panicked.
RECURSIVE MatchLoop(_, _, _)
MatchLoop(side, price, s) ==
    IF ~(s.quantity > 0) \/ s.panic THEN s
    ELSE
    LET cell == OppositeBest(s.b, side)
    IN IF cell = None THEN s
       ELSE
       LET highest_priority_order == s.b.orders[cell]
       IN IF ~Satisfied(side, price, highest_priority_order.price) THEN s
          ELSE
          LET satisfied_quantity ==
                  SatisfiedQuantity(s.quantity, highest_priority_order.quantity)
              buy_side_cost ==
                  BuySideCost(highest_priority_order.price, satisfied_quantity)
              b1 == [s.b EXCEPT !.orders[cell].quantity = @ - satisfied_quantity]
              removed == RemoveSatisfied(b1, side, cell)
          IN MatchLoop(side, price,
                [b |-> removed.b,
                 quantity |-> s.quantity - satisfied_quantity,
                 order_match_vec |->
                    Append(s.order_match_vec,
                           MakerMatch(highest_priority_order.id, side,
                                      satisfied_quantity, buy_side_cost)),
                 new_order_order_match |->
                    TakerMatch(s.new_order_order_match, side,
                               satisfied_quantity, buy_side_cost),
                 iterations |-> s.iterations + 1,
                 panic |-> removed.panic])

\* mutant: the record of the new order is always added
PushTakerAlways(order_match_vec, new_order_order_match) ==
    Append(order_match_vec, new_order_order_match)

\* "add to result vec if not empty"
PushTaker(order_match_vec, new_order_order_match) ==
    IF new_order_order_match.quantity # 0
    THEN Append(order_match_vec, new_order_order_match)
    ELSE order_match_vec

\* mutant: the index is left as it is
IndexInsertNothing(index, id, cell) == index

\* HashMap::insert of the index
IndexInsert(index, id, cell) ==
    [i \in DOMAIN index \cup {id} |-> IF i = id THEN cell ELSE index[i]]

\* "add order to data structures if any remaining quantity"
Admit(b, id, side, price, quantity) ==
    IF quantity = 0 THEN b
    ELSE
    LET cell == NewCell(b)
        order == [id |-> id, side |-> side, price |-> price,
                  quantity |-> quantity, priority |-> get_next_priority(b)]
        b1 == [b EXCEPT !.priority = get_next_priority(b),
                        !.orders = [c \in DOMAIN @ \cup {cell} |->
                                       IF c = cell THEN order ELSE @[c]]]
    IN [b1 EXCEPT
          !.order_index = IndexInsert(@, id, cell),
          !.buy_side = IF side = "Buy"
                       THEN BookSideAdd(@, b1.orders, cell) ELSE @,
          !.sell_side = IF side = "Sell"
                        THEN BookSideAdd(@, b1.orders, cell) ELSE @]

\* mutant: no id is taken to exist
AlreadyExistsNever(index, id) == FALSE

\* "check to ensure order does not already exist"
AlreadyExists(index, id) == id \in DOMAIN index

\* mutant: a quantity of zero passes
NonPositiveNegativeOnly(quantity) == quantity < 0

\* "check to ensure positive quantity"
NonPositive(quantity) == quantity <= 0

\* OrderBook::process_limit_order: [b, result, fills, iterations]
process_limit_order(b, id, side, price, quantity) ==
    IF AlreadyExists(b.order_index, id)
    THEN [b |-> b, result |-> "OrderAlreadyExists", fills |-> <<>>, iterations |-> 0]
    ELSE IF NonPositive(quantity)
    THEN [b |-> b, result |-> "NonPositiveQuantity", fills |-> <<>>, iterations |-> 0]
    ELSE
    LET s == MatchLoop(side, price,
                [b |-> b, quantity |-> quantity, order_match_vec |-> <<>>,
                 new_order_order_match |-> OrderMatchNew(id),
                 iterations |-> 0, panic |-> FALSE])
    IN IF s.panic
       THEN [b |-> s.b, result |-> "Panic", fills |-> <<>>, iterations |-> s.iterations]
       ELSE [b |-> Admit(s.b, id, side, price, s.quantity),
             result |-> "Ok",
             fills |-> PushTaker(s.order_match_vec, s.new_order_order_match),
             iterations |-> s.iterations]

\* mutant: the index keeps the id
IndexRemoveNothing(index, id) == index

\* HashMap::remove of the index
IndexRemove(index, id) == Restrict(index, DOMAIN index \ {id})

\* OrderBook::cancel_order: [b, result]
cancel_order(b, id) ==
    IF id \notin DOMAIN b.order_index
    THEN [b |-> b, result |-> "OrderNotFound"]
    ELSE
    LET shared_order == b.order_index[id]
        side == b.orders[shared_order].side
        b1 == [b EXCEPT !.order_index = IndexRemove(@, id)]
        removed == IF side = "Buy"
                   THEN BookSideRemove(b1.buy_side, b1.orders, shared_order)
                   ELSE BookSideRemove(b1.sell_side, b1.orders, shared_order)
        b2 == [b1 EXCEPT
                 !.buy_side = IF side = "Buy" THEN removed.price_tree ELSE @,
                 !.sell_side = IF side = "Sell" THEN removed.price_tree ELSE @]
    IN IF removed.panic THEN [b |-> b1, result |-> "Panic"]
       ELSE [b |-> Release(b2), result |-> "Ok"]

\* mutant: the extremes are swapped
MarketPriceSwapped(side) == IF side = "Buy" THEN DecimalMIN ELSE DecimalMAX

\* the price a market order is given
MarketPrice(side) == IF side = "Buy" THEN DecimalMAX ELSE DecimalMIN

\* mutant: only an order that matched nothing is cancelled
NeedsCancelEmptyOnly(order_match_vec, quantity) == Len(order_match_vec) = 0

\* mutant: the order is always cancelled
NeedsCancelAlways(order_match_vec, quantity) == TRUE

\* the condition under which process_market_order cancels the order
NeedsCancel(order_match_vec, quantity) ==
    \/ Len(order_match_vec) = 0
    \/ order_match_vec[Len(order_match_vec)].quantity # quantity

\* mutant: an error of the limit-order path is cleaned up too
CleanupAfterAnyResult(result, order_match_vec, quantity) ==
    NeedsCancel(order_match_vec, quantity)

\* mutant: the order is never cancelled
CleanupNever(result, order_match_vec, quantity) == FALSE

\* the cleanup of process_market_order: only "if let Ok(..) = result"
Cleanup(result, order_match_vec, quantity) ==
    result = "Ok" /\ NeedsCancel(order_match_vec, quantity)

\* OrderBook::process_market_order: [b, result, fills, iterations]
process_market_order(b, id, side, quantity) ==
    LET r == process_limit_order(b, id, side, MarketPrice(side), quantity)
        c == cancel_order(r.b, id)
    IN IF Cleanup(r.result, r.fills, quantity)
       THEN IF c.result = "Ok"
            THEN [r EXCEPT !.b = c.b]
            ELSE [r EXCEPT !.b = c.b, !.result = "Panic", !.fills = <<>>]
       ELSE r

\* the BookSide of a side, as the queries select it
SideIter(b, side) ==
    IF side = "Buy" THEN BookSideIter("MaxPricePriority", b.buy_side)
    ELSE BookSideIter("MinPricePriority", b.sell_side)

SideBest(b, side) ==
    IF side = "Buy" THEN get_highest_priority("MaxPricePriority", b.buy_side)
    ELSE get_highest_priority("MinPricePriority", b.sell_side)

\* Option of the queries: None is <<>>, Some(v) is <<v>>
Some(v) == <<v>>

\* mutant: the whole quantity of the order is taken
QuoteSatisfiedWhole(quantity, order_quantity) == order_quantity

\* satisfied_quantity of calculate_market_cost
QuoteSatisfied(quantity, order_quantity) == Min(quantity, order_quantity)

\* mutant: the cost is added for a Sell too
QuoteCostAdded(side, cost, buy_side_cost) == cost + buy_side_cost

\* the cost update of calculate_market_cost
QuoteCost(side, cost, buy_side_cost) ==
    IF side = "Buy" THEN cost + buy_side_cost ELSE cost - buy_side_cost

\* mutant: the quantity is taken from the order, as the matching loop does
QuoteVisitTaking(b, cell, satisfied_quantity) ==
    [b EXCEPT !.orders[cell].quantity = @ - satisfied_quantity]

\* what visiting an order does to the book in calculate_market_cost: the
\* order is borrowed immutably (val.borrow()), the quantity taken is
\* subtracted from the local variable only
QuoteVisit(b, cell, satisfied_quantity) == b

\* the loop of calculate_market_cost over the rest of the iterator
RECURSIVE QuoteLoop(_, _, _)
QuoteLoop(side, iter, s) ==
    IF s.quantity = 0 \/ iter = <<>> THEN s
    ELSE
    LET order == s.b.orders[Head(iter)]
        satisfied_quantity == QuoteSatisfied(s.quantity, order.quantity)
        buy_side_cost == order.price * satisfied_quantity
    IN QuoteLoop(side, Tail(iter),
          [b |-> QuoteVisit(s.b, Head(iter), satisfied_quantity),
           quantity |-> s.quantity - satisfied_quantity,
           quantity_fulfilled |-> s.quantity_fulfilled + satisfied_quantity,
           cost |-> QuoteCost(side, s.cost, buy_side_cost)])

\* OrderBook::calculate_market_cost: [b, result, ret]
calculate_market_cost(b, side, quantity) ==
    IF NonPositive(quantity)
    THEN [b |-> b, result |-> "NonPositiveQuantity", ret |-> <<>>]
    ELSE
    LET s == QuoteLoop(side, SideIter(b, Opposite(side)),
                [b |-> b, quantity |-> quantity,
                 quantity_fulfilled |-> 0, cost |-> 0])
    IN [b |-> s.b, result |-> "Ok", ret |-> <<s.quantity_fulfilled, s.cost>>]

\* OrderBook::get_highest_priority_order
get_highest_priority_order(b, side) ==
    IF SideBest(b, side) = None THEN <<>>
    ELSE Some(b.orders[SideBest(b, side)].id)

\* OrderBook::get_highest_priority_price
get_highest_priority_price(b, side) ==
    IF SideBest(b, side) = None THEN <<>>
    ELSE Some(b.orders[SideBest(b, side)].price)

\* mutant: the loop does not stop at another price
SamePriceAlways(price, order_price) == TRUE

\* the loop of get_highest_priority_price_quantity goes on
SamePrice(price, order_price) == price = order_price

\* the loop of get_highest_priority_price_quantity from the i-th order
\* (counted from 0) of the iterator on: [price, quantity_at_price]
RECURSIVE LevelLoop(_, _, _, _)
LevelLoop(b, iter, i, s) ==
    IF iter = <<>> THEN s
    ELSE
    LET order == b.orders[Head(iter)]
        price == IF i = 0 THEN order.price ELSE s.price
    IN IF i # 0 /\ ~SamePrice(price, order.price) THEN s
       ELSE LevelLoop(b, Tail(iter), i + 1,
               [price |-> price,
                quantity_at_price |-> s.quantity_at_price + order.quantity])

\* OrderBook::get_highest_priority_price_quantity
get_highest_priority_price_quantity(b, side) ==
    LET s == LevelLoop(b, SideIter(b, side), 0, [price |-> 0, quantity_at_price |-> 0])
    IN IF s.quantity_at_price = 0 THEN <<>>
       ELSE Some(<<s.price, s.quantity_at_price>>)

\* ------------------------------------------------------------- the calls
NoPre == OrderBookNew

Call(op, id, side, price, quantity, pre, r) ==
    [op |-> op, id |-> id, side |-> side, price |-> price,
     quantity |-> quantity, pre |-> pre, result |-> r.result,
     fills |-> r.fills, iterations |-> r.iterations, ret |-> <<>>]

SetBook(b) ==
    /\ order_index' = b.order_index
    /\ buy_side' = b.buy_side
    /\ sell_side' = b.sell_side
    /\ priority' = b.priority
    /\ orders' = b.orders

\* no call is in progress and none has returned a value not yet dropped
Idle == [op |-> "idle", id |-> 0, side |-> "Buy", price |-> 0,
         quantity |-> 0, pre |-> NoPre, result |-> "Ok",
         fills |-> <<>>, iterations |-> 0, ret |-> <<>>]

\* the book can be called: the calls are made one after the other (&mut
\* self) and a panic ends the program
Running == last = Idle

Init ==
    /\ order_index = OrderBookNew.order_index
    /\ buy_side = OrderBookNew.buy_side
    /\ sell_side = OrderBookNew.sell_side
    /\ priority = OrderBookNew.priority
    /\ orders = OrderBookNew.orders
    /\ last = Idle

\* The ids a place call is tried with: every resting id and the least id
\* that is not resting (OrderID is opaque: Copy + Eq + Hash, so the ids
\* that are not resting are interchangeable).
PlaceIds ==
    DOMAIN order_index \cup
        {i \in OrderIDs : i \notin DOMAIN order_index
                            /\ \A j \in 1..(i - 1) : j \in DOMAIN order_index}

ProcessLimitOrder ==
    /\ Running
    /\ \E id \in PlaceIds, side \in Sides, price \in Prices, quantity \in Quantities :
        /\ LET r == process_limit_order(Book, id, side, price, quantity)
           IN /\ r.b.priority <= MaxPriority
              /\ SetBook(r.b)
              /\ last' = Call("process_limit_order", id, side, price, quantity, Book, r)

ProcessMarketOrder ==
    /\ Running
    /\ \E id \in PlaceIds, side \in Sides, quantity \in Quantities :
        /\ LET r == process_market_order(Book, id, side, quantity)
           IN /\ r.b.priority <= MaxPriority
              /\ SetBook(r.b)
              /\ last' = Call("process_market_order", id, side, MarketPrice(side),
                              quantity, Book, r)

CancelOrder ==
    /\ Running
    /\ \E id \in OrderIDs :
        /\ LET c == cancel_order(Book, id)
               r == [result |-> c.result, fills |-> <<>>, iterations |-> 0]
           IN /\ SetBook(c.b)
              /\ last' = Call("cancel_order", id, "Buy", 0, 0, Book, r)

\* a query: the book is what the handler leaves, ret its value
Query(op, side, quantity, b, result, ret) ==
    /\ SetBook(b)
    /\ last' = [Call(op, 0, side, 0, quantity, Book,
                     [result |-> result, fills |-> <<>>, iterations |-> 0])
                    EXCEPT !.ret = ret]

CalculateMarketCost ==
    /\ Running
    /\ \E side \in Sides, quantity \in Quantities :
        /\ LET r == calculate_market_cost(Book, side, quantity)
           IN Query("calculate_market_cost", side, quantity, r.b, r.result, r.ret)

GetHighestPriorityOrder ==
    /\ Running
    /\ \E side \in Sides :
        /\ Query("get_highest_priority_order", side, 0, Book, "Ok",
                 get_highest_priority_order(Book, side))

GetHighestPriorityPrice ==
    /\ Running
    /\ \E side \in Sides :
        /\ Query("get_highest_priority_price", side, 0, Book, "Ok",
                 get_highest_priority_price(Book, side))

GetHighestPriorityPriceQuantity ==
    /\ Running
    /\ \E side \in Sides :
        /\ Query("get_highest_priority_price_quantity", side, 0, Book, "Ok",
                 get_highest_priority_price_quantity(Book, side))

\* The call has returned and the caller is done with the value: it is
\* dropped and the next call can be made.  A panic does not return.
Return ==
    /\ last # Idle
    /\ last.result # "Panic"
    /\ last' = Idle
    /\ UNCHANGED <<order_index, buy_side, sell_side, priority, orders>>

Next ==
    \/ ProcessLimitOrder \/ ProcessMarketOrder \/ CancelOrder
    \/ CalculateMarketCost \/ GetHighestPriorityOrder \/ GetHighestPriorityPrice
    \/ GetHighestPriorityPriceQuantity
    \/ Return

Spec == Init /\ [][Next]_vars

\* ------------------------------------------------ reading the last call
PlaceCall == last.op \in {"process_limit_order", "process_market_order"}

PlaceOk == PlaceCall /\ last.result = "Ok"

\* the orders resting in book b, read through the index
Resting(b) == {b.orders[b.order_index[i]] : i \in DOMAIN b.order_index}

\* the orders a side of book b holds, read through its price tree
OnSide(b, side) ==
    {b.orders[c] : c \in CellsOf(IF side = "Buy" THEN b.buy_side ELSE b.sell_side)}

\* the orders resting before the last call on the side opposite to it
PreOpp == {o \in Resting(last.pre) : o.side = Opposite(last.side)}

PreOrder(id) == last.pre.orders[last.pre.order_index[id]]

\* the records of the last call that are not the record of the new order
MakerRecs == SelectSeq(last.fills, LAMBDA m : m.order # last.id)

Costs(fills) == [i \in 1..Len(fills) |-> fills[i].cost]

Qtys(fills) == [i \in 1..Len(fills) |-> fills[i].quantity]

\* the quantity the new order of the last call transacted
Filled == SumSeq(Qtys(MakerRecs))

\* o1 is matched before o2 (same side): better price, or same price and
\* admitted earlier
Better(o1, o2) ==
    \/ IF o1.side = "Sell" THEN o1.price < o2.price ELSE o1.price > o2.price
    \/ o1.price = o2.price /\ o1.priority < o2.priority

\* ---------------------------------------------------------------- claims

\* C1: every non-empty fill sequence a place call returns has costs that
\* sum to zero.
ConservationOfCash ==
    (PlaceOk /\ last.fills # <<>>) => SumSeq(Costs(last.fills)) = 0

\* a Buy that consumed a Sell at a negative price and a Sell at price zero
ConservationOfCashWitness ==
    /\ PlaceOk /\ last.side = "Buy" /\ Len(last.fills) = 3
    /\ PreOrder(last.fills[1].order).price < 0
    /\ PreOrder(last.fills[2].order).price = 0
    /\ last.fills[1].cost # 0

\* C2: in every non-empty fill sequence the last record is the one of the
\* order just placed and its quantity is the sum of the quantities of the
\* records before it.
ConservationOfQuantity ==
    (PlaceOk /\ last.fills # <<>>) =>
        LET n == Len(last.fills)
        IN /\ last.fills[n].order = last.id
           /\ last.fills[n].quantity = SumSeq(Qtys(SubSeq(last.fills, 1, n - 1)))

\* two makers of one unit each and a taker record of two units
ConservationOfQuantityWitness ==
    /\ PlaceOk /\ Len(last.fills) = 3
    /\ last.fills[1].quantity = 1 /\ last.fills[2].quantity = 1
    /\ last.fills[3].quantity = 2

\* C3: the i-th maker of a call is, among the opposing orders that rested
\* before the call and were not consumed earlier in it, the one with the
\* best price and, at that price, the earliest admission; a maker left
\* resting with a remainder keeps its priority and stays ahead of every
\* other order of its side.
PriceTimePriority ==
    PlaceOk =>
        \A i \in 1..Len(MakerRecs) :
            /\ MakerRecs[i].order \in DOMAIN last.pre.order_index
            /\ LET o == PreOrder(MakerRecs[i].order)
               IN /\ o \in PreOpp
                  /\ \A o2 \in PreOpp :
                        o2.id \notin {MakerRecs[j].order : j \in 1..i} => Better(o, o2)
                  /\ MakerRecs[i].order \in DOMAIN order_index =>
                        LET p == orders[order_index[o.id]]
                        IN /\ p.priority = o.priority
                           /\ OppositeBest(Book, last.side) = order_index[o.id]
                           /\ \A p2 \in OnSide(Book, o.side) : p2.id # p.id => Better(p, p2)

\* two makers at one price were consumed, the earlier admitted first, and
\* the later one is left with a remainder on top of its side
PriceTimePriorityWitness ==
    /\ PlaceOk /\ Len(MakerRecs) = 2
    /\ PreOrder(MakerRecs[1].order).price = PreOrder(MakerRecs[2].order).price
    /\ PreOrder(MakerRecs[1].order).priority < PreOrder(MakerRecs[2].order).priority
    /\ MakerRecs[2].order \in DOMAIN order_index
    /\ orders[order_index[MakerRecs[2].order]].quantity = 1

\* C4: a maker record costs -(maker.price * quantity) when the maker is a
\* Sell and +(maker.price * quantity) when it is a Buy, whatever the limit
\* of the new order; the record of the new order costs the negated sum.
MakerPriceAndSign ==
    PlaceOk =>
        /\ \A i \in 1..Len(MakerRecs) :
              LET o == PreOrder(MakerRecs[i].order)
              IN MakerRecs[i].cost =
                    IF o.side = "Sell" THEN 0 - (o.price * MakerRecs[i].quantity)
                    ELSE o.price * MakerRecs[i].quantity
        /\ last.fills # <<>> =>
              last.fills[Len(last.fills)].cost = 0 - SumSeq(Costs(MakerRecs))

\* a limit Sell below the price of the Buy it consumed, the other maker at
\* a negative price
MakerPriceAndSignWitness ==
    /\ PlaceOk /\ last.op = "process_limit_order" /\ last.side = "Sell"
    /\ Len(MakerRecs) = 2
    /\ PreOrder(MakerRecs[1].order).price > last.price
    /\ PreOrder(MakerRecs[1].order).price > 0
    /\ PreOrder(MakerRecs[2].order).price < 0

\* C5: a limit order only consumes makers whose price crosses its limit
\* (equal prices cross), and it stops with quantity left only when the
\* opposing side is empty or its best order does not cross.
CrossingRule ==
    (PlaceOk /\ last.op = "process_limit_order") =>
        /\ \A i \in 1..Len(MakerRecs) :
              LET o == PreOrder(MakerRecs[i].order)
              IN IF last.side = "Buy" THEN last.price >= o.price
                 ELSE last.price <= o.price
        /\ last.quantity - Filled > 0 =>
              \A o \in OnSide(Book, Opposite(last.side)) :
                 IF last.side = "Buy" THEN last.price < o.price
                 ELSE last.price > o.price

\* a limit order consumed a maker at exactly its limit and was left with
\* quantity, which rests
CrossingRuleWitness ==
    /\ PlaceOk /\ last.op = "process_limit_order"
    /\ Len(MakerRecs) = 1
    /\ PreOrder(MakerRecs[1].order).price = last.price
    /\ last.quantity - Filled > 0
    /\ last.id \in DOMAIN order_index

\* C6: in every reachable state every resting Buy is priced strictly
\* below every resting Sell, so the best Buy is below the best Sell.
NoCrossedBook ==
    \A o1 \in OnSide(Book, "Buy"), o2 \in OnSide(Book, "Sell") : o1.price < o2.price

\* both sides hold orders after a place call that matched
NoCrossedBookWitness ==
    /\ PlaceOk /\ last.fills # <<>>
    /\ OnSide(Book, "Buy") # {} /\ OnSide(Book, "Sell") # {}

\* C7: after process_market_order with an id that was not resting returns,
\* with fills or with an error, the id is neither in the index nor on a
\* side, and cancel_order(id) gives OrderNotFound.
MarketNonResidency ==
    (last.op = "process_market_order" /\ last.id \notin DOMAIN last.pre.order_index) =>
        /\ last.id \notin DOMAIN order_index
        /\ \A side \in Sides : \A o \in OnSide(Book, side) : o.id # last.id
        /\ cancel_order(Book, last.id).result = "OrderNotFound"

\* a market order that was filled in part
MarketNonResidencyWitness ==
    /\ last.op = "process_market_order" /\ last.result = "Ok"
    /\ last.fills # <<>> /\ Filled < last.quantity

\* the orders of S from the first matched to the last
RECURSIVE SortByBetter(_)
SortByBetter(S) ==
    IF S = {} THEN <<>>
    ELSE LET o == CHOOSE o \in S : \A o2 \in S \ {o} : Better(o, o2)
         IN <<o>> \o SortByBetter(S \ {o})

\* taking quantity from the orders of a sequence, in its order
RECURSIVE Walk(_, _)
Walk(sorted, quantity) ==
    IF sorted = <<>> \/ quantity = 0 THEN <<>>
    ELSE LET taken == Min(quantity, Head(sorted).quantity)
         IN <<[order |-> Head(sorted).id, quantity |-> taken]>>
                \o Walk(Tail(sorted), quantity - taken)

RECURSIVE SumQuantity(_)
SumQuantity(S) ==
    IF S = {} THEN 0
    ELSE LET o == CHOOSE o \in S : TRUE IN o.quantity + SumQuantity(S \ {o})

\* C8: a successful market order fills min(quantity, all the opposing
\* quantity), taking the opposing orders from best to worst whatever
\* their prices.
MarketNeverStoppedByPrice ==
    (last.op = "process_market_order" /\ last.result = "Ok") =>
        /\ Filled = Min(last.quantity, SumQuantity(PreOpp))
        /\ [i \in 1..Len(MakerRecs) |->
               [order |-> MakerRecs[i].order, quantity |-> MakerRecs[i].quantity]]
             = Walk(SortByBetter(PreOpp), last.quantity)

\* a market Sell consumed Buys at two prices, one of them negative
MarketNeverStoppedByPriceWitness ==
    /\ last.op = "process_market_order" /\ last.result = "Ok"
    /\ last.side = "Sell" /\ Len(MakerRecs) = 2
    /\ PreOrder(MakerRecs[1].order).price > PreOrder(MakerRecs[2].order).price
    /\ PreOrder(MakerRecs[2].order).price < 0

\* the quantity the last call took from order o, which rested before it
TakenFrom(o) ==
    o.quantity - (IF o.id \in DOMAIN order_index
                  THEN orders[order_index[o.id]].quantity ELSE 0)

\* the orders the last call consumed, in whole or in part
Consumed == {o \in Resting(last.pre) : last.id # o.id /\ TakenFrom(o) # 0}

RECURSIVE SumTaken(_)
SumTaken(S) ==
    IF S = {} THEN 0
    ELSE LET o == CHOOSE o \in S : TRUE IN TakenFrom(o) + SumTaken(S \ {o})

\* C9: a successful place call returns one record per maker consumed,
\* each maker once, then one record of the new order if and only if it
\* transacted; the sequence is empty if it transacted nothing.
FillSequenceShape ==
    PlaceOk =>
        /\ Len(MakerRecs) = Cardinality(Consumed)
        /\ {MakerRecs[i].order : i \in 1..Len(MakerRecs)} = {o.id : o \in Consumed}
        /\ last.iterations = Len(MakerRecs)
        /\ IF SumTaken(Consumed) # 0
           THEN /\ Len(last.fills) = Len(MakerRecs) + 1
                /\ last.fills[Len(last.fills)].order = last.id
           ELSE last.fills = <<>>

\* two makers consumed and the record of the new order
FillSequenceShapeWitness ==
    /\ PlaceOk /\ Len(last.fills) = 3 /\ Cardinality(Consumed) = 2
    /\ last.fills[3].order = last.id

\* C10: after a successful process_limit_order the id rests if and only
\* if quantity is left; then it is in the index and on its own side only,
\* at the given price with the quantity left; otherwise it is nowhere.
ResidualAdmission ==
    (last.op = "process_limit_order" /\ last.result = "Ok") =>
        LET left == last.quantity - SumTaken(Consumed)
            own == IF last.side = "Buy" THEN buy_side ELSE sell_side
            other == IF last.side = "Buy" THEN sell_side ELSE buy_side
        IN /\ last.id \in DOMAIN order_index <=> left > 0
           /\ left > 0 =>
                /\ orders[order_index[last.id]] =
                      [id |-> last.id, side |-> last.side, price |-> last.price,
                       quantity |-> left, priority |-> priority]
                /\ last.price \in DOMAIN own
                /\ \E i \in 1..Len(own[last.price]) :
                      own[last.price][i] = order_index[last.id]
                /\ \A o \in OnSide(Book, Opposite(last.side)) : o.id # last.id
           /\ ~(left > 0) =>
                \A side \in Sides : \A o \in OnSide(Book, side) : o.id # last.id

\* a limit order that matched and rests with the quantity left
ResidualAdmissionWitness ==
    /\ last.op = "process_limit_order" /\ last.result = "Ok"
    /\ last.fills # <<>>
    /\ last.id \in DOMAIN order_index
    /\ orders[order_index[last.id]].quantity = last.quantity - Filled

\* the errors a call returns
Errors == {"OrderAlreadyExists", "NonPositiveQuantity", "OrderNotFound"}

\* C11 as stated: a requested quantity <= 0 gives NonPositiveQuantity, also
\* for an id that is resting.
NonPositiveQuantityAlways ==
    (last.op \in {"process_limit_order", "process_market_order",
                  "calculate_market_cost"} /\ last.quantity <= 0) =>
        last.result = "NonPositiveQuantity"

\* C11 amended: a requested quantity <= 0 gives NonPositiveQuantity, except
\* that a place call with a resting id gives OrderAlreadyExists (the id is
\* checked first).
NonPositiveQuantityUnlessResting ==
    (last.op \in {"process_limit_order", "process_market_order",
                  "calculate_market_cost"} /\ last.quantity <= 0) =>
        last.result = IF PlaceCall /\ last.id \in DOMAIN last.pre.order_index
                      THEN "OrderAlreadyExists" ELSE "NonPositiveQuantity"

\* a place call with quantity zero and an id that is not resting, on a
\* book that holds an order
NonPositiveQuantityUnlessRestingWitness ==
    /\ PlaceCall /\ last.quantity = 0
    /\ last.id \notin DOMAIN last.pre.order_index
    /\ DOMAIN last.pre.order_index # {}
    /\ last.result = "NonPositiveQuantity"

\* C12: a place call returns OrderAlreadyExists exactly when the id was
\* resting before it.
OrderAlreadyExistsIffResting ==
    PlaceCall =>
        (last.result = "OrderAlreadyExists" <=> last.id \in DOMAIN last.pre.order_index)

\* a market order with a positive quantity and a resting id
OrderAlreadyExistsIffRestingWitness ==
    /\ last.op = "process_market_order" /\ last.quantity > 0
    /\ last.id \in DOMAIN last.pre.order_index
    /\ last.result = "OrderAlreadyExists"

\* C13: a call that returns an error leaves the index, both sides, every
\* resting order and the priority counter as they were.
UnchangedOnError ==
    last.result \in Errors => Book = last.pre

\* a market order rejected with OrderAlreadyExists; the order of that id
\* still rests
UnchangedOnErrorWitness ==
    /\ last.op = "process_market_order" /\ last.result = "OrderAlreadyExists"
    /\ last.quantity > 0
    /\ last.id \in DOMAIN order_index

\* C14: cancel_order returns Ok exactly when the id was resting and
\* OrderNotFound otherwise; after an Ok a second cancel of the id returns
\* OrderNotFound.
CancelResult ==
    last.op = "cancel_order" =>
        /\ last.result = "Ok" <=> last.id \in DOMAIN last.pre.order_index
        /\ last.result # "Ok" => last.result = "OrderNotFound"
        /\ last.result = "Ok" => cancel_order(Book, last.id).result = "OrderNotFound"

\* a resting order was cancelled while another one rests
CancelResultWitness ==
    /\ last.op = "cancel_order" /\ last.result = "Ok"
    /\ last.id \in DOMAIN last.pre.order_index
    /\ DOMAIN order_index # {}

\* the cell of the order the last call cancelled
CancelledCell == last.pre.order_index[last.id]

QuoteOk == last.op = "calculate_market_cost" /\ last.result = "Ok"

\* an id that was not resting before the last call
FreshId == CHOOSE i \in 0..MaxId : i \notin DOMAIN last.pre.order_index

\* process_market_order with a fresh id and the arguments of the last
\* call, on the book as it was before the last call
MarketOnCopy == process_market_order(last.pre, FreshId, last.side, last.quantity)

\* C16 as stated: the pair calculate_market_cost returns is (quantity,
\* cost) of the last record of the fills of the same market order.
DryRunEqualsTakerRecord ==
    QuoteOk =>
        /\ MarketOnCopy.fills # <<>>
        /\ LET taker == MarketOnCopy.fills[Len(MarketOnCopy.fills)]
           IN last.ret = <<taker.quantity, taker.cost>>

\* C16 amended: the pair equals (quantity, cost) of the last record of
\* the fills of the same market order when there are fills; when the
\* market order returns no record (empty opposing side) the pair is (0, 0).
DryRunConsistency ==
    QuoteOk =>
        /\ MarketOnCopy.result = "Ok"
        /\ IF MarketOnCopy.fills = <<>> THEN last.ret = <<0, 0>>
           ELSE LET taker == MarketOnCopy.fills[Len(MarketOnCopy.fills)]
                IN /\ taker.order = FreshId
                   /\ last.ret = <<taker.quantity, taker.cost>>

\* a quote for more than the opposing side holds, at a price that is
\* not zero
DryRunConsistencyWitness ==
    /\ QuoteOk /\ PreOpp # {}
    /\ last.ret[1] < last.quantity
    /\ last.ret[2] # 0
    /\ Len(MarketOnCopy.fills) = 2

\* the cash of a sequence of [order, quantity] taken from resting orders
RECURSIVE WalkCash(_)
WalkCash(w) ==
    IF w = <<>> THEN 0
    ELSE PreOrder(Head(w).order).price * Head(w).quantity + WalkCash(Tail(w))

\* C17: calculate_market_cost returns the quantity min(q, all opposing
\* quantity) and the cash of taking it from the opposing orders, best
\* price first and earliest first at a price, added for a Buy and
\* subtracted for a Sell; (0, 0) on an empty opposing side.
QuoteValue ==
    QuoteOk =>
        LET w == Walk(SortByBetter(PreOpp), last.quantity)
            cash == WalkCash(w)
        IN /\ last.ret = <<Min(last.quantity, SumQuantity(PreOpp)),
                          IF last.side = "Buy" THEN cash ELSE 0 - cash>>
           /\ PreOpp = {} => last.ret = <<0, 0>>

\* a quote for a Sell of two units over two Buys of different prices
QuoteValueWitness ==
    /\ QuoteOk /\ last.side = "Sell" /\ last.ret[1] = 2
    /\ Cardinality(PreOpp) = 2
    /\ \E o1, o2 \in PreOpp : o1.price > o2.price /\ o1.quantity = 1
    /\ last.ret[2] # 0

Queries == {"calculate_market_cost", "get_highest_priority_order",
            "get_highest_priority_price", "get_highest_priority_price_quantity"}

\* C18: the four inspection queries leave the index, both sides, every
\* resting order and the priority counter as they were.
QueriesDoNotMutate ==
    last.op \in Queries => Book = last.pre

\* a quote that took a part of the quantity of a resting order
QueriesDoNotMutateWitness ==
    /\ QuoteOk /\ last.ret[1] = 1
    /\ \E o \in PreOpp : o.quantity = 2

\* the orders resting on the side the last call asked for
OnAskedSide == {o \in Resting(Book) : o.side = last.side}

\* C19: get_highest_priority_order and get_highest_priority_price return
\* the id and the price of the resting order of the side with the best
\* price and, at that price, the earliest admission; None exactly when no
\* order rests on the side.
BookTop ==
    last.op \in {"get_highest_priority_order", "get_highest_priority_price"} =>
        IF OnAskedSide = {} THEN last.ret = <<>>
        ELSE LET o == Head(SortByBetter(OnAskedSide))
             IN last.ret = <<IF last.op = "get_highest_priority_order"
                             THEN o.id ELSE o.price>>

\* the id of the earlier of two orders of one price is returned
BookTopWitness ==
    /\ last.op = "get_highest_priority_order"
    /\ \E o1, o2 \in OnAskedSide :
          /\ o1.price = o2.price /\ o1.priority < o2.priority
          /\ last.ret = <<o1.id>>

\* C20: get_highest_priority_price_quantity returns the best price of the
\* side and the sum of the quantities resting at that price; None exactly
\* when no order rests on the side.
BestLevel ==
    last.op = "get_highest_priority_price_quantity" =>
        IF OnAskedSide = {} THEN last.ret = <<>>
        ELSE LET p == Head(SortByBetter(OnAskedSide)).price
             IN last.ret = <<<<p, SumQuantity({o \in OnAskedSide : o.price = p})>>>>

\* two orders at different prices rest on the side: only the quantity of
\* the best price is returned
BestLevelWitness ==
    /\ last.op = "get_highest_priority_price_quantity"
    /\ \E o1, o2 \in OnAskedSide :
          /\ o1.price # o2.price
          /\ last.ret = <<<<o1.price, o1.quantity>>>>

SideTree(side) == IF side = "Buy" THEN buy_side ELSE sell_side

\* C21: the ids of the index are the ids of the orders the two sides hold;
\* each order of the index is held exactly once, by the side its side
\* field names and in the queue of its price, and every order a side
\* holds is the one the index has under its id.
IndexSideAgreement ==
    /\ \A id \in DOMAIN order_index :
          LET c == order_index[id]
              price_tree == SideTree(orders[c].side)
          IN /\ orders[c].id = id
             /\ orders[c].price \in DOMAIN price_tree
             /\ LET queue == price_tree[orders[c].price]
                IN Cardinality({i \in 1..Len(queue) : queue[i] = c}) = 1
    /\ \A side \in Sides :
          LET price_tree == SideTree(side)
          IN \A k \in DOMAIN price_tree : \A i \in 1..Len(price_tree[k]) :
                LET o == orders[price_tree[k][i]]
                IN /\ o.side = side /\ o.price = k
                   /\ o.id \in DOMAIN order_index
                   /\ order_index[o.id] = price_tree[k][i]

\* a call that took a resting order out of the book and put its own order
\* in
IndexSideAgreementWitness ==
    /\ PlaceOk /\ last.id \in DOMAIN order_index
    /\ \E id \in DOMAIN last.pre.order_index : id \notin DOMAIN order_index

\* C22: every order a side holds has a positive quantity; a maker all of
\* whose quantity was taken by a call is on no side and not in the index
\* when the call returns.
RestingQuantityPositive ==
    /\ \A side \in Sides : \A o \in OnSide(Book, side) : o.quantity > 0
    /\ PlaceOk =>
          \A i \in 1..Len(MakerRecs) :
              LET id == MakerRecs[i].order
              IN MakerRecs[i].quantity = PreOrder(id).quantity =>
                    /\ id \notin DOMAIN order_index
                    /\ \A side \in Sides : \A o \in OnSide(Book, side) : o.id # id

\* the earlier of two makers of one price was taken whole and the later
\* one is left on the side
RestingQuantityPositiveWitness ==
    /\ PlaceOk /\ Len(MakerRecs) = 1
    /\ MakerRecs[1].quantity = PreOrder(MakerRecs[1].order).quantity
    /\ \E o \in OnSide(Book, Opposite(last.side)) :
          o.price = PreOrder(MakerRecs[1].order).price

\* the ids the last call admitted: resting after it, not before it
Admitted ==
    IF last = Idle THEN {} ELSE DOMAIN order_index \ DOMAIN last.pre.order_index

RestingOrder(id) == orders[order_index[id]]

\* C23: priorities are assigned in strictly increasing order.  The counter
\* holds the priority assigned last and no call decreases it; an order a
\* call admits has a priority above the counter as it was before the call,
\* hence above every priority assigned before and above the one of every
\* order that was resting; no two resting orders have the same priority.
MonotonicPriorities ==
    /\ last # Idle => last.pre.priority <= priority
    /\ \A id \in Admitted :
          /\ PlaceOk
          /\ RestingOrder(id).priority > last.pre.priority
          /\ RestingOrder(id).priority = priority
          /\ \A o \in Resting(last.pre) : RestingOrder(id).priority > o.priority
    /\ \A id1, id2 \in DOMAIN order_index :
          id1 # id2 => RestingOrder(id1).priority # RestingOrder(id2).priority

\* the second priority is given to an order placed in a book that no
\* order rests in: the order that had the first one was cancelled,
\* consumed, or was a market order
MonotonicPrioritiesWitness ==
    /\ PlaceOk /\ last.op = "process_limit_order"
    /\ DOMAIN last.pre.order_index = {}
    /\ last.id \in DOMAIN order_index
    /\ RestingOrder(last.id).priority = 2

RestingOrderImmutable ==
    last # Idle =>
        \A id \in DOMAIN last.pre.order_index \cap DOMAIN order_index :
            LET o == PreOrder(id)
                n == RestingOrder(id)
            IN /\ n.id = o.id /\ n.side = o.side
               /\ n.price = o.price /\ n.priority = o.priority
               /\ n.quantity <= o.quantity
               /\ n.quantity < o.quantity =>
                     /\ PlaceOk
                     /\ o.side = Opposite(last.side)
                     /\ \A o2 \in PreOpp :
                           Better(o2, o) => o2.id \notin DOMAIN order_index
                     /\ \E i \in 1..Len(MakerRecs) :
                           /\ MakerRecs[i].order = id
                           /\ MakerRecs[i].quantity = o.quantity - n.quantity

\* a better order was taken whole and the next one lost a part of its
\* quantity and still rests
RestingOrderImmutableWitness ==
    /\ PlaceOk
    /\ \E id \in DOMAIN last.pre.order_index \cap DOMAIN order_index :
          /\ RestingOrder(id).quantity < PreOrder(id).quantity
          /\ \E o2 \in PreOpp : Better(o2, PreOrder(id))

\* C26: every record of a returned fill sequence has a positive quantity
\* and the record of the new order has at most the quantity asked for.
FillQuantitiesPositive ==
    PlaceOk =>
        /\ \A i \in 1..Len(last.fills) : last.fills[i].quantity > 0
        /\ \A i \in 1..Len(last.fills) :
              last.fills[i].order = last.id =>
                  last.fills[i].quantity <= last.quantity

\* a limit order of two units took the only unit of the only maker
FillQuantitiesPositiveWitness ==
    /\ PlaceOk /\ last.op = "process_limit_order" /\ last.quantity = 2
    /\ Len(last.fills) = 2
    /\ last.fills[1].quantity = 1 /\ last.fills[2].quantity = 1
    /\ last.fills[2].order = last.id

\* what the limit-order path of the last call, a market order, returned
LimitPath ==
    process_limit_order(last.pre, last.id, last.side, last.price, last.quantity)

\* C27: the assertion of the cleanup of process_market_order never fails.
\* When the limit-order path succeeds with no record, or with a last
\* record of another quantity than the one asked for, the id is resting
\* and cancel_order returns Ok; when the last record has the quantity
\* asked for the id is not resting; either way the id is not resting when
\* the call returns.
CleanupAssertionHolds ==
    last.op = "process_market_order" =>
        LET r == LimitPath
            n == Len(r.fills)
        IN /\ last.result # "Panic"
           /\ r.result = "Ok" =>
                 /\ IF n = 0 \/ r.fills[n].quantity # last.quantity
                    THEN /\ last.id \in DOMAIN r.b.order_index
                         /\ cancel_order(r.b, last.id).result = "Ok"
                    ELSE last.id \notin DOMAIN r.b.order_index
                 /\ last.id \notin DOMAIN order_index

\* the limit-order path left a market order of two units resting with one
\* unit after it took the only unit of the opposing side
CleanupAssertionHoldsWitness ==
    /\ last.op = "process_market_order" /\ last.result = "Ok"
    /\ last.quantity = 2 /\ Len(last.fills) = 2
    /\ last.id \in DOMAIN LimitPath.b.order_index
    /\ LimitPath.b.orders[LimitPath.b.order_index[last.id]].quantity = 1
    /\ last.id \notin DOMAIN order_index

\* C28: of the makers a place call names, every one but the last was
\* taken whole and rests no more; the last one may be left with a part of
\* its quantity, and then the new order got all it asked for and does not
\* rest.  No other resting order lost quantity.
AtMostOnePartialMaker ==
    PlaceOk =>
        LET n == Len(MakerRecs)
        IN /\ \A i \in 1..n :
                 LET id == MakerRecs[i].order
                 IN /\ id \in DOMAIN last.pre.order_index
                    /\ i < n =>
                          /\ MakerRecs[i].quantity = PreOrder(id).quantity
                          /\ id \notin DOMAIN order_index
                    /\ id \in DOMAIN order_index =>
                          /\ i = n
                          /\ RestingOrder(id).quantity =
                                PreOrder(id).quantity - MakerRecs[i].quantity
                          /\ last.id \notin DOMAIN order_index
                          /\ last.fills[Len(last.fills)].order = last.id
                          /\ last.fills[Len(last.fills)].quantity = last.quantity
           /\ \A id \in DOMAIN last.pre.order_index \cap DOMAIN order_index :
                 RestingOrder(id).quantity # PreOrder(id).quantity =>
                    n > 0 /\ MakerRecs[n].order = id

\* two makers are named: the first was taken whole, the second is left
\* with a part of its quantity
AtMostOnePartialMakerWitness ==
    /\ PlaceOk /\ Len(MakerRecs) = 2
    /\ MakerRecs[1].order \notin DOMAIN order_index
    /\ MakerRecs[2].order \in DOMAIN order_index
    /\ last.id \notin DOMAIN order_index

\* the ids the last call has done with: the ids of the orders that were
\* resting and rest no more (cancelled, or taken whole as makers), the id
\* of a limit order that was filled whole and the id of a market order
ReleasedIds ==
    IF last = Idle THEN {}
    ELSE (DOMAIN last.pre.order_index \ DOMAIN order_index)
         \cup (IF PlaceOk /\ last.id \notin DOMAIN order_index THEN {last.id} ELSE {})
         \cup (IF PlaceOk /\ last.op = "process_market_order" THEN {last.id} ELSE {})

\* C29: an id the last call has done with passes the check of
\* process_limit_order for an id that exists already; and
\* process_limit_order with an id that passes it and a positive quantity
\* succeeds, an order it leaves resting having a priority above the
\* counter as it was, which is at least the priority of every order
\* admitted before, the former order of the id among them.
IdReuse ==
    /\ \A id \in ReleasedIds : ~AlreadyExists(order_index, id)
    /\ (/\ last.op = "process_limit_order"
        /\ last.quantity > 0
        /\ ~AlreadyExists(last.pre.order_index, last.id)) =>
           /\ last.result = "Ok"
           /\ last.id \in DOMAIN order_index =>
                 /\ RestingOrder(last.id).priority > last.pre.priority
                 /\ \A o \in Resting(last.pre) :
                       RestingOrder(last.id).priority > o.priority

\* id 1, the id of the order that was given priority 1 (the first order
\* placed in a new book has the least id) and rests no more, is placed
\* again and rests with priority 2
IdReuseWitness ==
    /\ last.op = "process_limit_order" /\ last.result = "Ok" /\ last.id = 1
    /\ last.pre.priority = 1 /\ DOMAIN last.pre.order_index = {}
    /\ last.id \in DOMAIN order_index
    /\ RestingOrder(last.id).priority = 2

\* ------------------------------------------------- BookSide on its own
\* The two BookSide instances driven through their own interface (add,
\* remove, pop_highest_priority) in any order.  buy_side and sell_side are
\* the price trees, orders the cells, priority the priority given to the
\* order added last; order_index is here the side as the specification
\* sees it: the orders added and not removed since, by id.
KeyType(side) == IF side = "Buy" THEN "MaxPricePriority" ELSE "MinPricePriority"

SideOf(b, side) == IF side = "Buy" THEN b.buy_side ELSE b.sell_side

WithSide(b, side, price_tree) ==
    IF side = "Buy" THEN [b EXCEPT !.buy_side = price_tree]
    ELSE [b EXCEPT !.sell_side = price_tree]

BookSideCall(op, id, side, result) ==
    [Idle EXCEPT !.op = op, !.id = id, !.side = side, !.pre = Book,
                 !.result = result]

\* BookSide::add of a new order, with the next priority
Add ==
    \E side \in Sides, price \in Prices, quantity \in 1..MaxQty :
        /\ last.result # "Panic"
        /\ priority < MaxPriority
        /\ LET id == CHOOSE i \in OrderIDs :
                        /\ i \notin DOMAIN order_index
                        /\ \A j \in 1..(i - 1) : j \in DOMAIN order_index
               cell == NewCell(Book)
               order == [id |-> id, side |-> side, price |-> price,
                         quantity |-> quantity, priority |-> priority + 1]
               b1 == [Book EXCEPT
                        !.priority = priority + 1,
                        !.orders = [c \in DOMAIN @ \cup {cell} |->
                                       IF c = cell THEN order ELSE @[c]],
                        !.order_index = IndexInsert(@, id, cell)]
           IN /\ SetBook(WithSide(b1, side, BookSideAdd(SideOf(b1, side), b1.orders, cell)))
              /\ last' = BookSideCall("add", id, side, "Ok")

\* BookSide::remove of an order, of this side or of the other one
Remove ==
    \E side \in Sides, cell \in DOMAIN orders :
        /\ last.result # "Panic"
        /\ LET removed == BookSideRemove(SideOf(Book, side), orders, cell)
               b1 == [Book EXCEPT !.order_index = IndexRemove(@, orders[cell].id)]
           IN IF removed.panic
              THEN /\ UNCHANGED <<order_index, buy_side, sell_side, priority, orders>>
                   /\ last' = BookSideCall("remove", orders[cell].id, side, "Panic")
              ELSE /\ SetBook(Release(WithSide(b1, side, removed.price_tree)))
                   /\ last' = BookSideCall("remove", orders[cell].id, side, "Ok")

\* BookSide::pop_highest_priority; the specification's side loses its
\* first order
PopHighestPriority ==
    \E side \in Sides :
        /\ last.result # "Panic"
        /\ LET popped == pop_highest_priority(KeyType(side), SideOf(Book, side))
               S == {o \in Resting(Book) : o.side = side}
               id == IF S = {} THEN 0 ELSE Head(SortByBetter(S)).id
               b1 == [Book EXCEPT !.order_index = IndexRemove(@, id)]
           IN IF popped.panic
              THEN /\ UNCHANGED <<order_index, buy_side, sell_side, priority, orders>>
                   /\ last' = BookSideCall("pop_highest_priority", id, side, "Panic")
              ELSE /\ SetBook(Release(WithSide(b1, side, popped.price_tree)))
                   /\ last' = BookSideCall("pop_highest_priority", id, side, "Ok")

BookSideNext == Add \/ Remove \/ PopHighestPriority

BookSideSpec == Init /\ [][BookSideNext]_vars

\* C30: iterating a BookSide yields exactly the orders added to it and not
\* removed since, sorted by price (descending for the buy side, ascending
\* for the sell side) and then by priority ascending, and
\* get_highest_priority returns the first of them.
BookSideRefinement ==
    \A side \in Sides :
        LET iter == BookSideIter(KeyType(side), SideOf(Book, side))
            S == {o \in Resting(Book) : o.side = side}
            best == get_highest_priority(KeyType(side), SideOf(Book, side))
        IN /\ [i \in 1..Len(iter) |-> orders[iter[i]]] = SortByBetter(S)
           /\ IF S = {} THEN best = None
              ELSE best # None /\ orders[best] = Head(SortByBetter(S))

\* the better of two orders of the buy side, of different prices, was
\* popped and the other one is first now
BookSideRefinementWitness ==
    /\ last.op = "pop_highest_priority" /\ last.result = "Ok" /\ last.side = "Buy"
    /\ \E o1, o2 \in Resting(last.pre) :
          /\ o1.side = "Buy" /\ o2.side = "Buy" /\ o1.price > o2.price
          /\ Resting(Book) = {o2}
          /\ orders[get_highest_priority("MaxPricePriority", buy_side)] = o2

\* C31: the matching loop of a place call runs at most as many iterations
\* as orders rested on the opposing side when the call was made: it runs
\* once for each maker record, and each iteration takes its maker out of
\* the book or, in the last one, gives the new order all it asked for.
IterationBound ==
    (PlaceCall /\ last.result # "Panic") =>
        /\ last.iterations <= Cardinality(PreOpp)
        /\ last.result = "Ok" =>
              LET recs == MakerRecs
              IN /\ last.iterations = Len(recs)
                 /\ \A i \in 1..Len(recs) :
                       \/ recs[i].order \notin DOMAIN order_index
                       \/ /\ i = Len(recs)
                          /\ last.fills[Len(last.fills)].quantity = last.quantity

\* the loop ran once for each of the two orders of the opposing side
IterationBoundWitness ==
    /\ PlaceOk /\ last.iterations = 2 /\ Cardinality(PreOpp) = 2

\* the order with this id is not on the side of book b: the side has no
\* queue for its price, or the queue has no order with the id
Absent(b, side, id) ==
    LET price == b.orders[b.order_index[id]].price
        price_tree == SideOf(b, side)
    IN \/ price \notin DOMAIN price_tree
       \/ \A i \in 1..Len(price_tree[price]) : b.orders[price_tree[price][i]].id # id

\* C32 as stated: BookSide::remove of an order that is not on the side
\* leaves the side as it is and does not abort.
RemoveAbsentIsNoOp ==
    (last.op = "remove" /\ Absent(last.pre, last.side, last.id)) =>
        /\ last.result = "Ok"
        /\ SideOf(Book, last.side) = SideOf(last.pre, last.side)

\* C32, amended: BookSide::remove panics exactly when the order is not on
\* the side; when it is, the side loses that order and no other.
RemoveAbsentPanics ==
    last.op = "remove" =>
        IF Absent(last.pre, last.side, last.id)
        THEN last.result = "Panic"
        ELSE /\ last.result = "Ok"
             /\ CellsOf(SideOf(Book, last.side)) =
                   CellsOf(SideOf(last.pre, last.side))
                      \ {last.pre.order_index[last.id]}

\* the side has a queue for the price of the order, which holds another
\* order only: remove_by_id_or_panic panics
RemoveAbsentPanicsWitness ==
    /\ last.op = "remove" /\ last.result = "Panic"
    /\ LET price == PreOrder(last.id).price
       IN /\ price \in DOMAIN SideOf(last.pre, last.side)
          /\ Absent(last.pre, last.side, last.id)

====
